---- MODULE Spec2Model ----
(***************************************************************************)
(* Model of src/ai/api/server.py: the login endpoint (/token), the token   *)
(* check run as a dependency of every protected endpoint, the rate limit   *)
(* declared on /inference and the body of /inference.                      *)
(*                                                                         *)
(* Time is the wall clock in whole seconds (the JWT "exp" claim is an      *)
(* integer number of seconds).  The clock advances in steps of Quantum     *)
(* seconds.  Library calls are modelled by what they do:                   *)
(*   jose.jwt.encode/decode : HS256 MAC over the claims, signature check   *)
(*       first, then the "exp" check (expired iff exp < now);              *)
(*   passlib verify         : the hash matches the hash of the password;   *)
(*   slowapi limit("5/minute") with key_func=get_remote_address : the      *)
(*       fixed-window strategy over in-memory storage, a counter and an    *)
(*       expiry per key; every hit is counted and compared to the amount.  *)
(* The limit decorator is taken to protect the endpoint as declared.       *)
(***************************************************************************)
EXTENDS Integers, FiniteSets, Sequences, TLC

VARIABLES now, fake_users_db, storage, issued, inflight, last, addrWin, idWin,
          recent

vars == <<now, fake_users_db, storage, issued, inflight, last, addrWin, idWin,
          recent>>

(* ------------------------------ bounds -------------------------------- *)
TicksPerMinute == 2
TicksPerTTL == 3
Quantum == 60 \div TicksPerMinute
MaxInFlight == 6
OneAtATime == 1
MaxIssued == 1
MaxHits == 6

(* ------------------------- program constants -------------------------- *)
ACCESS_TOKEN_EXPIRE_MINUTES == 30
RateLimitAmount == 5
RateLimitSeconds == 60
RequiredInputLength == 10
SECRET_KEY == "your-secret-key-for-jwt-encryption"
ALGORITHM == "HS256"

TTL == ACCESS_TOKEN_EXPIRE_MINUTES * 60
MaxTime == RateLimitSeconds + Quantum
TokenQuantum == TTL \div TicksPerTTL
MaxTimeTok == TTL + TokenQuantum

(* ------------------------------ universes ----------------------------- *)
Usernames == {"testuser", "alice", "nobody"}
Passwords == {"testpassword", "alicepassword", "wrong"}
Addresses == {"10.0.0.1", "10.0.0.2"}
Lengths == {3, 10}
NoSub == "<None>"

(* ---------------------------- CredentialStore ------------------------- *)
pwd_hash(password) == <<"bcrypt", password>>

verify_password(plain_password, hashed_password) ==
    hashed_password = pwd_hash(plain_password)

UserRecord(username, password, disabled) ==
    [username |-> username, hashed_password |-> pwd_hash(password),
     disabled |-> disabled]

None == [username |-> NoSub, hashed_password |-> <<"none", "">>, disabled |-> FALSE]

\* The user table of the source, and the tables the same schema allows:
\* the one user disabled, and a second provisioned user.
UserTables ==
    { [u \in {"testuser"} |-> UserRecord("testuser", "testpassword", d)] : d \in BOOLEAN }
    \cup
    { [u \in {"testuser", "alice"} |->
         IF u = "testuser" THEN UserRecord("testuser", "testpassword", FALSE)
                           ELSE UserRecord("alice", "alicepassword", d)] : d \in BOOLEAN }

get_user(db, username) ==
    IF username \in DOMAIN db THEN db[username] ELSE None

authenticate_user(db, username, password) ==
    LET user == get_user(db, username) IN
    IF user = None THEN None
    ELSE IF ~verify_password(password, user.hashed_password) THEN None
    ELSE user

(* ------------------------------ TokenService -------------------------- *)
hmac(key, sub, exp) == [key |-> key, sub |-> sub, exp |-> exp]

jwt_encode(claims, key) ==
    [sub |-> claims.sub, exp |-> claims.exp, mac |-> hmac(key, claims.sub, claims.exp)]

\* Variant: the check looks at the signing key only, not at the signed payload.
signature_verifies_key_only(token, key) ==
    token.mac.key = key

signature_verifies(token, key) ==
    token.mac = hmac(key, token.sub, token.exp)

\* Variant: the lifetime is read as seconds where the token carries minutes.
jwt_decode_short_lived(token, key, t) ==
    IF ~signature_verifies(token, key)
    THEN [ok |-> FALSE, err |-> "JWTError", sub |-> NoSub]
    ELSE IF token.exp - TTL + ACCESS_TOKEN_EXPIRE_MINUTES < t
    THEN [ok |-> FALSE, err |-> "ExpiredSignatureError", sub |-> NoSub]
    ELSE [ok |-> TRUE, err |-> "", sub |-> token.sub]

jwt_decode(token, key, t) ==
    IF ~signature_verifies(token, key)
    THEN [ok |-> FALSE, err |-> "JWTError", sub |-> NoSub]
    ELSE IF token.exp < t
    THEN [ok |-> FALSE, err |-> "ExpiredSignatureError", sub |-> NoSub]
    ELSE [ok |-> TRUE, err |-> "", sub |-> token.sub]

create_access_token(data, t) ==
    jwt_encode([sub |-> data.sub, exp |-> t + TTL], SECRET_KEY)

credentials_exception(err) ==
    [ok |-> FALSE, status |-> 401, detail |-> "Could not validate credentials",
     err |-> err, user |-> None]

\* Variant: the subject of a verified token is trusted without a lookup.
get_current_user_trusting_subject(db, token, t) ==
    LET payload == jwt_decode(token, SECRET_KEY, t) IN
    IF ~payload.ok THEN credentials_exception(payload.err)
    ELSE [ok |-> TRUE, status |-> 200, detail |-> "", err |-> "",
          user |-> UserRecord(payload.sub, "", FALSE)]

get_current_user(db, token, t) ==
    LET payload == jwt_decode(token, SECRET_KEY, t) IN
    IF ~payload.ok THEN credentials_exception(payload.err)
    ELSE IF payload.sub = NoSub THEN credentials_exception("NoSubject")
    ELSE LET user == get_user(db, payload.sub) IN
         IF user = None THEN credentials_exception("UnknownUser")
         ELSE IF user.disabled
         THEN [ok |-> FALSE, status |-> 400, detail |-> "Inactive user",
               err |-> "Inactive", user |-> None]
         ELSE [ok |-> TRUE, status |-> 200, detail |-> "", err |-> "", user |-> user]

get_current_active_user(db, token, t) ==
    LET current_user == get_current_user(db, token, t) IN
    IF current_user.ok /\ current_user.user.disabled
    THEN [ok |-> FALSE, status |-> 400, detail |-> "Inactive user",
          err |-> "Inactive", user |-> None]
    ELSE current_user

(* ------------------------------ RateLimiter --------------------------- *)
\* Storage keys: the limiter is built with key_func=get_remote_address.
Keys == Addresses \cup Usernames

NoEntry == [count |-> 0, expiry |-> 0]

\* Variant: the entry is compared by the start of its window, not its end.
storage_get_by_start(st, key, t) ==
    IF st[key].expiry - RateLimitSeconds <= t THEN NoEntry ELSE st[key]

\* MemoryStorage.get: an entry whose expiry has passed is dropped on access.
storage_get(st, key, t) ==
    IF st[key].expiry <= t THEN NoEntry ELSE st[key]

\* Variant: the window lasts half the period of the limit.
storage_incr_short_window(st, key, t) ==
    LET cur == storage_get(st, key, t) IN
    [count  |-> cur.count + 1,
     expiry |-> IF cur.count + 1 = 1 THEN t + RateLimitSeconds \div 2
                                     ELSE cur.expiry]

\* MemoryStorage.incr: the first hit of a window sets its expiry.
storage_incr(st, key, t) ==
    LET cur == storage_get(st, key, t) IN
    [count  |-> cur.count + 1,
     expiry |-> IF cur.count + 1 = 1 THEN t + RateLimitSeconds ELSE cur.expiry]

\* Variant: the key is the subject the token names, not the address.
key_by_subject(request) == request.token.sub

get_remote_address(request) == request.addr

\* Variant: the counter is compared with "<", one request too strict.
check_request_limit_strict(st, request, t) ==
    LET key   == get_remote_address(request)
        entry == storage_incr(st, key, t)
    IN [storage     |-> [st EXCEPT ![key] = entry],
        admitted    |-> entry.count < RateLimitAmount,
        retry_after |-> entry.expiry - t]

\* Variant: the counter is compared as read before the increment.
check_request_limit_read_first(st, request, t) ==
    LET key   == get_remote_address(request)
        entry == storage_incr(st, key, t)
    IN [storage     |-> [st EXCEPT ![key] = entry],
        admitted    |-> storage_get(st, key, t).count <= RateLimitAmount,
        retry_after |-> entry.expiry - t]

\* Variant: a rejection reports the whole period as the time to wait.
check_request_limit_retry_period(st, request, t) ==
    LET key   == get_remote_address(request)
        entry == storage_incr(st, key, t)
    IN [storage     |-> [st EXCEPT ![key] = entry],
        admitted    |-> entry.count <= RateLimitAmount,
        retry_after |-> RateLimitSeconds]

\* limiter.limit("5/minute"): FixedWindowRateLimiter.hit on the key of the
\* request; RateLimitExceeded when the counter has passed the amount.
check_request_limit(st, request, t) ==
    LET key   == get_remote_address(request)
        entry == storage_incr(st, key, t)
    IN [storage     |-> [st EXCEPT ![key] = entry],
        admitted    |-> entry.count <= RateLimitAmount,
        retry_after |-> entry.expiry - t]

(* -------------------------------- Compute ----------------------------- *)
model == "DummyModel"

\* Variant: the model is called before the length of the input is checked.
inference_body_model_first(n, fault) ==
    IF model = "None"
    THEN [raised |-> "HTTPException", status |-> 503,
          detail |-> "AI model not loaded", computed |-> FALSE]
    ELSE IF fault
    THEN [raised |-> "RuntimeError", status |-> 0,
          detail |-> "model call failed", computed |-> TRUE]
    ELSE IF n # RequiredInputLength
    THEN [raised |-> "HTTPException", status |-> 400,
          detail |-> "Input data must have 10 elements", computed |-> TRUE]
    ELSE [raised |-> "", status |-> 200, detail |-> "prediction", computed |-> TRUE]

\* The statements inside the try block of run_inference: what they raise
\* (an HTTPException with its status, or a fault of the model call) or return.
inference_body(n, fault) ==
    IF model = "None"
    THEN [raised |-> "HTTPException", status |-> 503,
          detail |-> "AI model not loaded", computed |-> FALSE]
    ELSE IF n # RequiredInputLength
    THEN [raised |-> "HTTPException", status |-> 400,
          detail |-> "Input data must have 10 elements", computed |-> FALSE]
    ELSE IF fault
    THEN [raised |-> "RuntimeError", status |-> 0,
          detail |-> "model call failed", computed |-> TRUE]
    ELSE [raised |-> "", status |-> 200, detail |-> "prediction", computed |-> TRUE]

\* Variant: a failed model call is tried once more before it is reported.
run_inference_retry(n, fault) ==
    LET r == inference_body(n, fault)
        again == inference_body(n, FALSE)
    IN
    IF r.raised = "RuntimeError"
    THEN [status |-> 200, detail |-> <<again.detail>>, computed |-> TRUE,
          raised |-> "", calls |-> 2]
    ELSE IF r.raised # ""
    THEN [status |-> 500, detail |-> <<"Inference failed", r.detail>>,
          computed |-> r.computed, raised |-> r.raised,
          calls |-> IF r.computed THEN 1 ELSE 0]
    ELSE [status |-> 200, detail |-> <<r.detail>>, computed |-> r.computed,
          raised |-> "", calls |-> IF r.computed THEN 1 ELSE 0]

\* try: ... except Exception as e: raise HTTPException(500, "Inference failed: ...")
\* HTTPException is an Exception, so the handler also catches the 400/503.
run_inference(n, fault) ==
    LET r == inference_body(n, fault) IN
    IF r.raised # ""
    THEN [status |-> 500, detail |-> <<"Inference failed", r.detail>>,
          computed |-> r.computed, raised |-> r.raised,
          calls |-> IF r.computed THEN 1 ELSE 0]
    ELSE [status |-> 200, detail |-> <<r.detail>>, computed |-> r.computed,
          raised |-> "", calls |-> IF r.computed THEN 1 ELSE 0]

(* -------------------------------- Gateway ----------------------------- *)
\* Variant: the limiter runs before the dependency is resolved.
inference_endpoint_limit_first(db, st, request, t) ==
    LET auth == get_current_active_user(db, request.token, t)
        lim  == check_request_limit(st, request, t)
    IN
    IF ~lim.admitted
    THEN [status |-> 429, detail |-> <<"Rate limit exceeded: 5 per 1 minute">>,
          err |-> "RateLimitExceeded", user |-> NoSub,
          storage |-> lim.storage, limited |-> "rejected",
          retry_after |-> lim.retry_after, computed |-> FALSE, len |-> -1,
          raised |-> "", calls |-> 0]
    ELSE IF ~auth.ok
    THEN [status |-> auth.status, detail |-> <<auth.detail>>, err |-> auth.err,
          user |-> NoSub, storage |-> lim.storage, limited |-> "skipped",
          retry_after |-> 0, computed |-> FALSE, len |-> -1,
          raised |-> "", calls |-> 0]
    ELSE LET r == run_inference(request.len, request.fault) IN
         [status |-> r.status, detail |-> r.detail, err |-> "",
          user |-> auth.user.username, storage |-> lim.storage,
          limited |-> "admitted", retry_after |-> 0,
          computed |-> r.computed, len |-> request.len,
          raised |-> r.raised, calls |-> r.calls]

\* Variant: the limiter is asked before the body but charged after it, and
\* only for a call that was answered 200.
inference_endpoint_deduct_on_success(db, st, request, t) ==
    LET auth == get_current_active_user(db, request.token, t) IN
    IF ~auth.ok
    THEN [status |-> auth.status, detail |-> <<auth.detail>>, err |-> auth.err,
          user |-> NoSub, storage |-> st, limited |-> "skipped",
          retry_after |-> 0, computed |-> FALSE, len |-> -1,
          raised |-> "", calls |-> 0]
    ELSE LET lim == check_request_limit(st, request, t) IN
         IF ~lim.admitted
         THEN [status |-> 429, detail |-> <<"Rate limit exceeded: 5 per 1 minute">>,
               err |-> "RateLimitExceeded", user |-> auth.user.username,
               storage |-> lim.storage, limited |-> "rejected",
               retry_after |-> lim.retry_after, computed |-> FALSE, len |-> -1,
               raised |-> "", calls |-> 0]
         ELSE LET r == run_inference(request.len, request.fault) IN
              [status |-> r.status, detail |-> r.detail, err |-> "",
               user |-> auth.user.username,
               storage |-> IF r.status = 200 THEN lim.storage ELSE st,
               limited |-> "admitted", retry_after |-> 0,
               computed |-> r.computed, len |-> request.len,
               raised |-> r.raised, calls |-> r.calls]

\* Variant: the limiter only reports; a call over the limit still runs.
inference_endpoint_report_only(db, st, request, t) ==
    LET auth == get_current_active_user(db, request.token, t) IN
    IF ~auth.ok
    THEN [status |-> auth.status, detail |-> <<auth.detail>>, err |-> auth.err,
          user |-> NoSub, storage |-> st, limited |-> "skipped",
          retry_after |-> 0, computed |-> FALSE, len |-> -1,
          raised |-> "", calls |-> 0]
    ELSE LET lim == check_request_limit(st, request, t)
             r == run_inference(request.len, request.fault)
         IN [status |-> r.status, detail |-> r.detail, err |-> "",
             user |-> auth.user.username, storage |-> lim.storage,
             limited |-> IF lim.admitted THEN "admitted" ELSE "rejected",
             retry_after |-> IF lim.admitted THEN 0 ELSE lim.retry_after,
             computed |-> r.computed, len |-> request.len,
             raised |-> r.raised, calls |-> r.calls]

\* POST /inference: the dependency get_current_active_user is resolved
\* first, then the limit decorator runs, then the endpoint body.
inference_endpoint(db, st, request, t) ==
    LET auth == get_current_active_user(db, request.token, t) IN
    IF ~auth.ok
    THEN [status |-> auth.status, detail |-> <<auth.detail>>, err |-> auth.err,
          user |-> NoSub, storage |-> st, limited |-> "skipped",
          retry_after |-> 0, computed |-> FALSE, len |-> -1,
          raised |-> "", calls |-> 0]
    ELSE LET lim == check_request_limit(st, request, t) IN
         IF ~lim.admitted
         THEN [status |-> 429, detail |-> <<"Rate limit exceeded: 5 per 1 minute">>,
               err |-> "RateLimitExceeded", user |-> auth.user.username,
               storage |-> lim.storage, limited |-> "rejected",
               retry_after |-> lim.retry_after, computed |-> FALSE, len |-> -1,
               raised |-> "", calls |-> 0]
         ELSE LET r == run_inference(request.len, request.fault) IN
              [status |-> r.status, detail |-> r.detail, err |-> "",
               user |-> auth.user.username, storage |-> lim.storage,
               limited |-> "admitted", retry_after |-> 0,
               computed |-> r.computed, len |-> request.len,
               raised |-> r.raised, calls |-> r.calls]

\* @app.exception_handler(Exception): an exception that no endpoint caught
\* becomes a 500 response with a fixed body.
unhandled_exception_handler(exc) ==
    [status |-> 500,
     detail |-> <<"Internal server error occurred. Please try again later.">>,
     err |-> exc]

\* Variant: an exception that reaches the handler also clears the limiter.
app_inference_reset_on_crash(db, st, request, t) ==
    IF request.crash
    THEN LET h == unhandled_exception_handler("Exception") IN
         [status |-> h.status, detail |-> h.detail, err |-> h.err,
          user |-> NoSub, storage |-> [k \in Keys |-> NoEntry],
          limited |-> "skipped",
          retry_after |-> 0, computed |-> FALSE, len |-> -1,
          raised |-> "Exception", calls |-> 0]
    ELSE inference_endpoint(db, st, request, t)

\* The application serving one POST /inference.  request.crash is an
\* exception raised while the request is prepared, outside every try block
\* of the endpoint; it reaches unhandled_exception_handler.
app_inference(db, st, request, t) ==
    IF request.crash
    THEN LET h == unhandled_exception_handler("Exception") IN
         [status |-> h.status, detail |-> h.detail, err |-> h.err,
          user |-> NoSub, storage |-> st, limited |-> "skipped",
          retry_after |-> 0, computed |-> FALSE, len |-> -1,
          raised |-> "Exception", calls |-> 0]
    ELSE inference_endpoint(db, st, request, t)

\* Variant: the failure tells an unknown name from a wrong password.
login_failure_enumerating(db, username, password) ==
    [status |-> IF username \in DOMAIN db THEN 401 ELSE 404,
     detail |-> IF username \in DOMAIN db THEN <<"Incorrect password">>
                                          ELSE <<"Unknown user">>,
     headers |-> "WWW-Authenticate: Bearer"]

\* POST /token
login_failure(db, username, password) ==
    [status |-> 401, detail |-> <<"Incorrect username or password">>,
     headers |-> "WWW-Authenticate: Bearer"]

login_for_access_token(db, username, password, t) ==
    LET user == authenticate_user(db, username, password) IN
    IF user = None
    THEN [ok |-> FALSE, resp |-> login_failure(db, username, password),
          token |-> jwt_encode([sub |-> NoSub, exp |-> 0], "")]
    ELSE [ok |-> TRUE,
          resp |-> [status |-> 200, detail |-> <<"bearer">>, headers |-> ""],
          token |-> create_access_token([sub |-> user.username], t)]

\* GET /users/me
read_users_me(db, token, t) ==
    LET auth == get_current_active_user(db, token, t) IN
    [status |-> auth.status, detail |-> <<auth.detail>>, err |-> auth.err,
     user |-> IF auth.ok THEN auth.user.username ELSE NoSub]

(* --------------------- tokens a caller can present -------------------- *)
NoToken == jwt_encode([sub |-> NoSub, exp |-> 0], "")

\* Tokens signed with the same SECRET_KEY before the clock of the model
\* starts (the key comes from the environment and outlives a restart).
PriorTokens ==
    { jwt_encode([sub |-> u, exp |-> MaxTime + TTL], SECRET_KEY) : u \in Usernames }
    \cup { jwt_encode([sub |-> "testuser", exp |-> Quantum], SECRET_KEY) }

\* An issued token with its payload altered and its signature kept.
Tampered(token) ==
    { [token EXCEPT !.sub = u] : u \in Usernames \ {token.sub} }
    \cup { [token EXCEPT !.exp = token.exp + TTL] }

\* Tokens signed with another key, and a string that is no token at all.
Forged ==
    { jwt_encode([sub |-> "testuser", exp |-> MaxTimeTok + TTL], "attacker-key"),
      NoToken }

PresentableTokens ==
    issued \cup UNION { Tampered(tk) : tk \in issued } \cup PriorTokens \cup Forged

(* ------------------- history of the limiter's decisions --------------- *)
\* Per key, the fixed window its calls fall in: the time of the first call
\* of the window, the number of calls in it and how many of them were
\* admitted.
NoRef == [start |-> 0, n |-> 0, adm |-> 0]

\* Per key, the number of calls admitted at each of the last Span clock
\* readings, the newest first, of a clock that is read every half window:
\* together they cover a closed interval of RateLimitSeconds seconds that
\* ends now.
HalfWindow == RateLimitSeconds \div 2

Span == RateLimitSeconds \div HalfWindow + 1

NoneRecent == [i \in 1..Span |-> 0]

Shift(h) == [i \in 1..Span |-> IF i = 1 THEN 0 ELSE h[i - 1]]

SumSeq(h) ==
    LET RECURSIVE Sum(_)
        Sum(i) == IF i = 0 THEN 0 ELSE h[i] + Sum(i - 1)
    IN Sum(Len(h))

RefHit(w, t, admitted) ==
    LET cur == IF w.n = 0 \/ t >= w.start + RateLimitSeconds
               THEN [start |-> t, n |-> 0, adm |-> 0]
               ELSE w
    IN [cur EXCEPT !.n = @ + 1, !.adm = @ + (IF admitted THEN 1 ELSE 0)]

(* -------------------------------- state ------------------------------- *)
Idle ==
    [op |-> "none", status |-> 0, detail |-> <<>>, err |-> "", token |-> NoToken,
     user |-> NoSub, addr |-> "", limited |-> "skipped", retry_after |-> 0,
     computed |-> FALSE, len |-> -1, burst |-> 0, raised |-> "", calls |-> 0,
     fails |-> 0]

Init ==
    /\ now = 0
    /\ fake_users_db \in UserTables
    /\ storage = [k \in Keys |-> NoEntry]
    /\ issued = {}
    /\ inflight = 0
    /\ last = Idle
    /\ addrWin = [a \in Addresses |-> NoRef]
    /\ idWin = [u \in Usernames |-> NoRef]
    /\ recent = [k \in Keys |-> NoneRecent]

\* The clock advances; the response of the previous step has been delivered.
Tick(step, maxTime) ==
    /\ now + step <= maxTime
    /\ now' = now + step
    /\ last' = Idle
    /\ UNCHANGED <<fake_users_db, storage, issued, inflight, addrWin, idWin>>

TickGateway == Tick(Quantum, MaxTime) /\ UNCHANGED recent

TickToken == Tick(TokenQuantum, MaxTimeTok) /\ UNCHANGED recent

\* Variant: POST /token is behind the limiter as well.
LoginLimited ==
    \E username \in Usernames, password \in Passwords, a \in Addresses :
      LET r == login_for_access_token(fake_users_db, username, password, now)
          lim == check_request_limit(storage, [addr |-> a], now)
      IN
      /\ lim.storage[a].count <= MaxHits
      /\ (lim.admitted /\ r.ok) =>
            (r.token \in issued \/ Cardinality(issued) < MaxIssued)
      /\ issued' = IF lim.admitted /\ r.ok THEN issued \cup {r.token} ELSE issued
      /\ storage' = lim.storage
      /\ last' = IF lim.admitted
                 THEN [Idle EXCEPT !.op = "login", !.status = r.resp.status,
                                   !.detail = r.resp.detail,
                                   !.err = r.resp.headers,
                                   !.token = r.token, !.user = username]
                 ELSE [Idle EXCEPT !.op = "login", !.status = 429,
                                   !.err = "RateLimitExceeded",
                                   !.user = username]
      /\ UNCHANGED <<now, fake_users_db, inflight, addrWin, idWin>>

Login ==
    \E username \in Usernames, password \in Passwords :
      LET r == login_for_access_token(fake_users_db, username, password, now) IN
      /\ r.ok => (r.token \in issued \/ Cardinality(issued) < MaxIssued)
      /\ issued' = IF r.ok THEN issued \cup {r.token} ELSE issued
      /\ last' = [Idle EXCEPT !.op = "login", !.status = r.resp.status,
                              !.detail = r.resp.detail, !.err = r.resp.headers,
                              !.token = r.token, !.user = username]
      /\ UNCHANGED <<now, fake_users_db, storage, inflight, addrWin, idWin>>

ReadUsersMe ==
    \E token \in PresentableTokens :
      LET r == read_users_me(fake_users_db, token, now) IN
      /\ last' = [Idle EXCEPT !.op = "me", !.status = r.status, !.detail = r.detail,
                              !.err = r.err, !.token = token, !.user = r.user]
      /\ UNCHANGED <<now, fake_users_db, storage, issued, inflight, addrWin,
                     idWin>>

\* A request for /inference has been accepted and waits for the event loop
\* to run its handler.
Connect(maxInFlight) ==
    /\ inflight < maxInFlight
    /\ inflight' = inflight + 1
    /\ last' = Idle
    /\ UNCHANGED <<now, fake_users_db, storage, issued, addrWin, idWin>>

\* The handler of one waiting request runs: dependency, limiter, body.
\* last.burst counts the handlers run back to back, that is, on requests
\* that were all waiting together.
Inference(addresses, tokens, lengths, faults, crashes) ==
    \E a \in addresses, token \in tokens, n \in lengths, fault \in faults,
       crash \in crashes :
      LET request == [addr |-> a, token |-> token, len |-> n, fault |-> fault,
                      crash |-> crash]
          r == app_inference(fake_users_db, storage, request, now)
          admitted == r.limited = "admitted"
      IN
      /\ inflight > 0
      /\ \A k \in Keys : r.storage[k].count <= MaxHits
      /\ inflight' = inflight - 1
      /\ storage' = r.storage
      /\ last' = [op |-> "inference", status |-> r.status, detail |-> r.detail,
                  err |-> r.err, token |-> token, user |-> r.user, addr |-> a,
                  limited |-> r.limited, retry_after |-> r.retry_after,
                  computed |-> r.computed, len |-> r.len,
                  burst |-> last.burst + 1, raised |-> r.raised,
                  calls |-> r.calls,
                  fails |-> last.fails
                            + (IF admitted /\ r.status = 500 THEN 1 ELSE 0)]
      /\ addrWin' = IF r.limited = "skipped" THEN addrWin
                    ELSE [addrWin EXCEPT ![a] =
                            RefHit(@, now, r.limited = "admitted")]
      /\ idWin' = IF r.limited = "skipped" THEN idWin
                  ELSE [idWin EXCEPT ![r.user] =
                            RefHit(@, now, r.limited = "admitted")]
      /\ UNCHANGED <<now, fake_users_db, issued>>

\* Tokens of the provisioned users that stay valid over the whole horizon.
ValidTokens ==
    { jwt_encode([sub |-> u, exp |-> MaxTime + TTL], SECRET_KEY) :
          u \in {"testuser", "alice"} }

TwoUsers ==
    /\ Init
    /\ DOMAIN fake_users_db = {"testuser", "alice"}
    /\ \A u \in DOMAIN fake_users_db : ~fake_users_db[u].disabled

\* The rate limit over time: one authenticated caller at two addresses,
\* well-formed payloads, one request handled at a time.
ConnectOne == Connect(OneAtATime) /\ UNCHANGED recent

OneUserTokens == {tk \in ValidTokens : tk.sub = "testuser"}

InferenceOneUser ==
    /\ Inference(Addresses, OneUserTokens, {RequiredInputLength}, {FALSE}, {FALSE})
    /\ UNCHANGED recent

NextRate == TickGateway \/ ConnectOne \/ InferenceOneUser

SpecRate == TwoUsers /\ [][NextRate]_vars

\* The rate limit under concurrency: up to MaxInFlight requests of two
\* callers at two addresses wait together and their handlers run in any
\* order within one window.
ConnectMany == Connect(MaxInFlight) /\ UNCHANGED recent

InferenceRate ==
    /\ Inference(Addresses, ValidTokens, {RequiredInputLength}, {FALSE}, {FALSE})
    /\ UNCHANGED recent

NextConcurrent == ConnectMany \/ InferenceRate

SpecConcurrent == TwoUsers /\ [][NextConcurrent]_vars

\* The whole protected endpoint seen from one address: any token, any
\* payload, a model call that may fail.
InferenceAny ==
    /\ Inference({"10.0.0.1"}, PresentableTokens, Lengths, BOOLEAN, {FALSE})
    /\ UNCHANGED recent

NextGateway == TickGateway \/ ConnectOne \/ InferenceAny

SpecGateway == Init /\ [][NextGateway]_vars

\* Login and token validation alone, over a horizon longer than the TTL.
LoginToken == Login /\ UNCHANGED recent

ReadUsersMeToken == ReadUsersMe /\ UNCHANGED recent

NextToken == TickToken \/ LoginToken \/ ReadUsersMeToken

SpecToken == Init /\ [][NextToken]_vars

\* Login and the protected endpoint together, seen from one address, with
\* the user table as shipped or with its user disabled: the tokens
\* presented are the ones login issued, a token that expires within the
\* horizon and the forged ones.
OneUser == Init /\ DOMAIN fake_users_db = {"testuser"}

SessionTokens ==
    issued \cup Forged
           \cup { jwt_encode([sub |-> "testuser", exp |-> Quantum], SECRET_KEY) }

InferenceSession ==
    /\ Inference({"10.0.0.1"}, SessionTokens, Lengths, BOOLEAN, {FALSE})
    /\ UNCHANGED recent

NextSession == TickGateway \/ LoginToken \/ ConnectOne \/ InferenceSession

SpecSession == OneUser /\ [][NextSession]_vars

\* The same two endpoints within one window of the limiter, under the
\* scheduling of the event loop: the handler of a request that has been
\* accepted is run.
NextServing == LoginToken \/ ConnectOne \/ InferenceSession

SpecServing == OneUser /\ [][NextServing]_vars /\ WF_vars(InferenceSession)

\* Tokens signed with SECRET_KEY whose subject may be no user: every name,
\* and no subject at all (python-jose signs whatever claims it is given).
\* They are presented from one address with well-formed payloads, over all
\* user tables.
SignedTokens ==
    { jwt_encode([sub |-> u, exp |-> MaxTime + TTL], SECRET_KEY) :
          u \in Usernames \cup {NoSub} }

InferenceSigned ==
    /\ Inference({"10.0.0.1"}, SignedTokens, {RequiredInputLength}, {FALSE},
                 {FALSE})
    /\ UNCHANGED recent

NextSubjects == TickGateway \/ ConnectOne \/ InferenceSigned

SpecSubjects == Init /\ [][NextSubjects]_vars

\* Requests that go wrong, within one window of the limiter: one caller at
\* one address, payloads of either length, a model call that may raise and
\* an exception that may be raised outside the endpoint, with up to
\* MaxInFlight requests waiting together.
InferenceFaulty ==
    /\ Inference({"10.0.0.1"}, OneUserTokens, Lengths, BOOLEAN, BOOLEAN)
    /\ UNCHANGED recent

NextFaults == ConnectMany \/ InferenceFaulty

SpecFaults == TwoUsers /\ [][NextFaults]_vars

\* The rate limit over a sliding interval: as SpecRate, with the calls
\* admitted at each clock reading recorded in recent.
TickRecorded ==
    /\ Tick(HalfWindow, MaxTime)
    /\ recent' = [k \in Keys |-> Shift(recent[k])]

InferenceRecorded ==
    /\ Inference(Addresses, OneUserTokens, {RequiredInputLength}, {FALSE}, {FALSE})
    /\ recent' = IF last'.limited # "admitted" THEN recent
                 ELSE [recent EXCEPT ![last'.addr][1] = @ + 1,
                                     ![last'.user][1] = @ + 1]

NextSliding == TickRecorded \/ ConnectOne \/ InferenceRecorded

SpecSliding == TwoUsers /\ [][NextSliding]_vars

(* ============================== properties ============================ *)
Min(a, b) == IF a < b THEN a ELSE b

MacOf(token) == [key |-> SECRET_KEY, sub |-> token.sub, exp |-> token.exp]

LimiterDecided == last.op = "inference" /\ last.limited # "skipped"

(* ---- C1 ---- *)
\* C1: a token issued by login at time t (exp = t + TTL) passes the token
\* check at every time before t + TTL and is refused as expired at every time
\* from t + TTL on, the instant t + TTL included.
C1_TokenLifetime ==
    (last.op = "me" /\ last.token \in issued) =>
        IF now < last.token.exp
        THEN last.err \notin {"JWTError", "ExpiredSignatureError"}
        ELSE last.err = "ExpiredSignatureError"

C6_InvalidRequest ==
    (last.op = "inference" /\ last.limited = "admitted"
       /\ last.len # RequiredInputLength) =>
        (last.status = 400 /\ ~last.computed)

(* ---- C7 ---- *)
\* C7: login answers 401 and issues no token for a name that is absent
\* from the user table or whose record is disabled.
C7_NoTokenForInactive ==
    (last.op = "login"
       /\ (last.user \notin DOMAIN fake_users_db
             \/ fake_users_db[last.user].disabled)) =>
        (last.status = 401 /\ last.token \notin issued)

(* ---- C8 ---- *)
LoginFailed(l) == l.op = "login" /\ l.status # 200

\* C8: a failed login for a name that is not in the user table and a failed
\* login for a known name (wrong password) carry the same status, detail and
\* headers.
C8_NoEnumeration ==
    [][(/\ LoginFailed(last) /\ last.user \notin DOMAIN fake_users_db
        /\ LoginFailed(last') /\ last'.user \in DOMAIN fake_users_db) =>
           (/\ last'.status = last.status
            /\ last'.detail = last.detail
            /\ last'.err = last.err)]_vars

C8_Witness ==
    /\ LoginFailed(last) /\ last.user \notin DOMAIN fake_users_db
    /\ last.status = 401

(* ---- C9 ---- *)
\* C9: a token whose signature is not the MAC of its own payload under
\* SECRET_KEY is refused as malformed and yields no identity, whatever
\* subject and expiry it carries.
C9_BadSignatureRefused ==
    (last.op = "me" /\ last.token.mac # MacOf(last.token)) =>
        (last.err = "JWTError" /\ last.status = 401 /\ last.user = NoSub)

C9_Witness ==
    /\ last.op = "me"
    /\ \E tk \in issued : last.token \in Tampered(tk) /\ last.token.sub # tk.sub
    /\ last.token.sub \in DOMAIN fake_users_db
    /\ last.err = "JWTError"

(* ---- C10 ---- *)
\* C10: a request for /inference whose token is refused (bad signature or
\* expired) is answered 401 and leaves every window of the limiter as it
\* was; the model is not called.
C10_AuthFailureTouchesNothing ==
    [][(/\ last'.op = "inference"
        /\ (last'.token.mac # MacOf(last'.token) \/ last'.token.exp < now)) =>
           (/\ storage' = storage
            /\ last'.status = 401
            /\ last'.limited = "skipped"
            /\ ~last'.computed)]_vars

C10_Witness ==
    /\ last.op = "inference"
    /\ last.err = "ExpiredSignatureError"
    /\ storage["10.0.0.1"].count = RateLimitAmount
    /\ storage["10.0.0.1"].expiry > now

(* ---- C11 ---- *)
\* C11: the model is called only on a request whose token was accepted (good
\* signature, not expired, subject an enabled user), that the limiter
\* admitted and whose input has the required length, the three checks
\* running in this order: a refused token leaves the limiter untouched, a
\* call the limiter rejects is answered 429 without a look at its payload
\* and without a model call, and a call with a wrong payload has been
\* counted by the limiter and does not reach the model.
TokenAccepted(token, t) ==
    /\ token.mac = MacOf(token)
    /\ token.exp >= t
    /\ token.sub \in DOMAIN fake_users_db
    /\ ~fake_users_db[token.sub].disabled

C11_ComputeAfterChecks ==
    /\ [](last.op = "inference" /\ last.computed =>
            /\ TokenAccepted(last.token, now)
            /\ last.limited = "admitted"
            /\ addrWin[last.addr].adm <= RateLimitAmount
            /\ last.len = RequiredInputLength)
    /\ [](last.op = "inference" /\ last.limited = "rejected" =>
            /\ last.status = 429
            /\ last.err = "RateLimitExceeded"
            /\ ~last.computed /\ last.calls = 0)
    /\ [][last'.op = "inference" =>
            /\ ~TokenAccepted(last'.token, now) => storage' = storage
            /\ last'.limited = "rejected" => TokenAccepted(last'.token, now)
            /\ (last'.limited = "admitted" /\ last'.len # RequiredInputLength) =>
                 (/\ TokenAccepted(last'.token, now)
                  /\ storage'[last'.addr] # storage[last'.addr]
                  /\ ~last'.computed)]_vars

C11_Witness ==
    /\ last.op = "inference"
    /\ last.computed
    /\ last.status = 200
    /\ addrWin[last.addr].adm = RateLimitAmount

(* ---- C12 ---- *)
\* C12: a request whose model call raises is answered 500 "Inference
\* failed", never 200; no request calls the model more than once, and an
\* answer of 200 comes from one model call that raised nothing.
ComputeFailed(l) == l.op = "inference" /\ l.raised = "RuntimeError"

C12_FailureReportedOnce ==
    /\ ComputeFailed(last) =>
          /\ last.status = 500
          /\ last.detail = <<"Inference failed", "model call failed">>
          /\ last.calls = 1
    /\ last.op = "inference" =>
          /\ last.calls <= 1
          /\ last.computed <=> last.calls = 1
          /\ last.status = 200 => (last.raised = "" /\ last.calls = 1)

C12_Witness ==
    /\ ComputeFailed(last)
    /\ last.status = 500
    /\ last.len = RequiredInputLength
    /\ last.calls = 1

TokenIssued(l) ==
    l.status = 200 /\ l.token \in issued /\ l.token.sub = l.user

LoginFailedOutcome(l) == l.status = 401 /\ l.token = NoToken

AuthFailed(l) ==
    l.limited = "skipped" /\ l.status \in {400, 401} /\ l.user = NoSub

RateLimited(l) == l.limited = "rejected" /\ l.status = 429

InvalidRequest(l) ==
    l.limited = "admitted" /\ l.raised = "HTTPException" /\ l.status \in {400, 500}

ComputeFailedOutcome(l) ==
    l.limited = "admitted" /\ l.raised = "RuntimeError" /\ l.status = 500

Succeeded(l) ==
    l.limited = "admitted" /\ l.raised = "" /\ l.status = 200 /\ l.computed

Outcomes(l) ==
    { o \in {"AuthFailed", "RateLimited", "InvalidRequest", "ComputeFailed",
             "Succeeded"} :
        \/ o = "AuthFailed" /\ AuthFailed(l)
        \/ o = "RateLimited" /\ RateLimited(l)
        \/ o = "InvalidRequest" /\ InvalidRequest(l)
        \/ o = "ComputeFailed" /\ ComputeFailedOutcome(l)
        \/ o = "Succeeded" /\ Succeeded(l) }

C16_ValidUntilExpiry ==
    (/\ last.op \in {"inference", "me"}
     /\ last.token \in issued
     /\ ~fake_users_db[last.token.sub].disabled
     /\ now < last.token.exp) =>
        /\ last.user = last.token.sub
        /\ last.status \notin {400, 401}
        /\ last.err \in {"", "RateLimitExceeded"}

C16_Witness ==
    /\ last.op = "inference"
    /\ last.token \in issued
    /\ now > last.token.exp - TTL
    /\ last.limited = "rejected"
    /\ last.user = last.token.sub

(* ---- C17 ---- *)
\* C17: a login, whether it yields a token or fails, changes no window of
\* the limiter and is answered 200 or 401, never 429, also when the window
\* of the only address is exhausted.
C17_LoginNotLimited ==
    [][last'.op = "login" =>
         /\ storage' = storage
         /\ addrWin' = addrWin /\ idWin' = idWin
         /\ last'.status \in {200, 401}
         /\ last'.status = 200 <=> LET u == last'.user IN
               /\ u \in DOMAIN fake_users_db
               /\ last'.token \in issued'
               /\ last'.token.sub = u]_vars

C17_Witness ==
    /\ last.op = "login"
    /\ last.status = 200
    /\ storage["10.0.0.1"].count > RateLimitAmount
    /\ storage["10.0.0.1"].expiry > now

(* ---- C18 ---- *)
\* C18: a call that the limiter admitted and that is then answered 500, for
\* a wrong payload or a failed model call, has been counted in the window
\* of its address like any other; and when RateLimitAmount such calls have
\* been handled back to back in one window, the next call handled in that
\* window is rejected with 429 whatever its payload, and the model is not
\* called.
FailedAfterAdmission(l) ==
    l.op = "inference" /\ l.limited = "admitted" /\ l.status = 500

NoActiveSubject(token) ==
    \/ token.sub = NoSub
    \/ token.sub \notin DOMAIN fake_users_db
    \/ fake_users_db[token.sub].disabled

C19_NoActiveSubjectRefused ==
    [][(/\ last'.op = "inference"
        /\ last'.token.mac = MacOf(last'.token)
        /\ last'.token.exp >= now
        /\ NoActiveSubject(last'.token)) =>
           (/\ last'.limited = "skipped"
            /\ last'.user = NoSub
            /\ last'.status =
                  (IF last'.token.sub \in DOMAIN fake_users_db THEN 400 ELSE 401)
            /\ storage' = storage
            /\ addrWin' = addrWin /\ idWin' = idWin
            /\ ~last'.computed /\ last'.calls = 0)]_vars

C19_Witness ==
    /\ last.op = "inference"
    /\ last.token.mac = MacOf(last.token)
    /\ last.token.sub \in DOMAIN fake_users_db
    /\ fake_users_db[last.token.sub].disabled
    /\ last.status = 400
    /\ addrWin["10.0.0.1"].adm > 0

C19_WitnessUnknown ==
    /\ last.op = "inference"
    /\ last.token.mac = MacOf(last.token)
    /\ last.token.sub \notin DOMAIN fake_users_db \cup {NoSub}
    /\ last.err = "UnknownUser"

C19_WitnessNoSubject ==
    /\ last.op = "inference"
    /\ last.token.mac = MacOf(last.token)
    /\ last.token.sub = NoSub
    /\ last.err = "NoSubject"

(* ---- C20 ---- *)
\* C20: a request during which something raises unexpectedly, the model
\* call inside the endpoint or anything outside it, is answered 500, the
\* second kind with the fixed body of the exception handler; the requests
\* waiting with it stay accepted, users and tokens are untouched, and the
\* limiter is left as the same request leaves it when nothing raises (the
\* model call) or as it was (an exception before the endpoint); the next
\* request handled is served as usual: admitted while the window has room
\* and answered 200 when its payload is right and nothing raises.
Faulted(l) == l.op = "inference" /\ l.raised \in {"RuntimeError", "Exception"}

Unfaulted(l) ==
    [addr |-> l.addr, token |-> l.token, len |-> l.len, fault |-> FALSE,
     crash |-> FALSE]

C20_FaultContained ==
    /\ [](Faulted(last) =>
            /\ last.status = 500
            /\ last.raised = "Exception" =>
                  last.detail =
                    <<"Internal server error occurred. Please try again later.">>)
    /\ [][Faulted(last') =>
            /\ inflight' = inflight - 1
            /\ fake_users_db' = fake_users_db /\ issued' = issued
            /\ last'.raised = "Exception" => storage' = storage
            /\ last'.raised = "RuntimeError" =>
                  storage' = app_inference(fake_users_db, storage,
                                           Unfaulted(last'), now).storage]_vars
    /\ [][(Faulted(last) /\ last'.op = "inference" /\ ~Faulted(last')) =>
            /\ addrWin[last'.addr].n < RateLimitAmount =>
                  last'.limited = "admitted"
            /\ (last'.limited = "admitted" /\ last'.len = RequiredInputLength) =>
                  (last'.status = 200 /\ last'.computed)]_vars

C20_Witness ==
    /\ Faulted(last)
    /\ last.raised = "Exception"
    /\ last.status = 500
    /\ inflight > 0
    /\ storage[last.addr].count = RateLimitAmount

C20_WitnessModelCall ==
    /\ Faulted(last)
    /\ last.raised = "RuntimeError"
    /\ inflight > 0

====
